---- MODULE Spec2Model ----
(***************************************************************************)
(* Model of three entry points of the repository:                          *)
(*   - sync_datasets / create_dataset (preset_cli/cli/superset/sync/dbt)   *)
(*   - get_oauth_access_token         (preset_cli/auth/lib.py)             *)
(*   - extract_datasets_from_zip      (scripts/extract_yamls.py)           *)
(* Python dicts are TLA+ functions over string keys (records), lists are   *)
(* sequences, and the Superset client is an environment that answers each  *)
(* call nondeterministically; every call is recorded in `calls`.           *)
(***************************************************************************)
EXTENDS Integers, Sequences, FiniteSets, TLC

VARIABLES
  \* ---- sync_datasets: arguments
  models, models_in, metrics, database, certification,
  reload_columns, merge_metadata, disallow_edits, external_url_prefix,
  \* ---- sync_datasets: locals
  pc, i, model_kwargs, certification_info, dataset, extra,
  current_metrics, dataset_metrics, current_columns, datasets,
  \* ---- sync_datasets: what the client saw
  calls, ncalls, found, skipped,
  \* ---- get_oauth_access_token
  client_id, client_secret, token_url, oauth_pc, response, posts, oauth_result,
  \* ---- extract_datasets_from_zip
  zip_folder, yaml_folder, zip_pc, file_no, member_no, written, destinations

sync_vars == <<models, models_in, metrics, database, certification,
               reload_columns, merge_metadata, disallow_edits,
               external_url_prefix, pc, i, model_kwargs, certification_info,
               dataset, extra, current_metrics, dataset_metrics,
               current_columns, datasets, calls, ncalls, found, skipped>>

oauth_vars == <<client_id, client_secret, token_url, oauth_pc, response,
                posts, oauth_result>>

zip_vars == <<zip_folder, yaml_folder, zip_pc, file_no, member_no, written,
              destinations>>

vars == <<sync_vars, oauth_vars, zip_vars>>

-----------------------------------------------------------------------------
(* Bounds of the model *)

MaxModels == 2
MaxMatches == 2

-----------------------------------------------------------------------------
(* Python values *)

None == [py_none |-> TRUE]
True == [py_bool |-> TRUE]
EmptyDict == <<>>

Has(d, k) == k \in DOMAIN d
Get(d, k, default) == IF Has(d, k) THEN d[k] ELSE default
Without(d, ks) == [k \in DOMAIN d \ ks |-> d[k]]
\* {**a, **b}: keys of b win
Merged(a, b) == b @@ a
\* truth value of an Optional[Dict]
Truthy(d) == d # None /\ DOMAIN d # {}
PyOr(a, b) == IF Truthy(a) THEN a ELSE b
\* model.get(k) or model[k2], for string values
StrOr(d, k, k2) == IF Has(d, k) /\ d[k] # "" THEN d[k] ELSE d[k2]

Range(s) == {s[k] : k \in DOMAIN s}

DEFAULT_CERTIFICATION == [details |-> "This table is produced by dbt"]

\* json.dumps / json.loads: the text is kept as a tagged pair
json_dumps(d) == <<"json", d>>
json_loads(s) == s[2]

-----------------------------------------------------------------------------
(* Inputs: dbt models and metrics *)

ModelOrders ==
  [unique_id |-> "model.x.orders", database |-> "db1", schema |-> "public",
   name |-> "orders", description |-> "All orders",
   columns |-> << [name |-> "id", description |-> "Primary key"],
                  [name |-> "amount"] >>]

ModelUsers ==
  [unique_id |-> "model.x.users", database |-> "db1", schema |-> "public",
   name |-> "users", alias |-> "people",
   meta |-> [superset |-> [extra |-> [certification |-> None, team |-> "core"],
                           cache_timeout |-> "60"]]]

ModelEvents ==
  [unique_id |-> "model.x.events", database |-> "db2", schema |-> "raw",
   name |-> "Events", description |-> "Raw events",
   meta |-> [owner |-> "data",
             superset |-> [extra |-> [certification |-> [details |-> "gold"]]]],
   columns |-> << [name |-> "ts", description |-> "Event time"] >>]

ModelItems ==
  [unique_id |-> "model.x.items", database |-> "db2", schema |-> "public",
   name |-> "select",
   meta |-> [superset |-> [extra |-> [team |-> "core"]]]]

ModelPool == {ModelOrders, ModelUsers, ModelEvents, ModelItems}

MetricCnt ==
  [name |-> "cnt", unique_id |-> "metric.x.cnt",
   depends_on |-> <<"model.x.orders">>, type |-> "count", sql |-> "*",
   description |-> "Number of orders", meta |-> EmptyDict]

MetricRevenue ==
  [name |-> "revenue", unique_id |-> "metric.x.revenue",
   depends_on |-> <<"model.x.orders">>, calculation_method |-> "sum",
   expression |-> "amount", label |-> "Revenue",
   meta |-> [team |-> "fin", superset |-> [d3format |-> ",.2f"]]]

MetricNUsers ==
  [name |-> "n_users", unique_id |-> "metric.x.n_users",
   depends_on |-> <<"model.x.users">>, calculation_method |-> "count",
   expression |-> "id", description |-> "Number of users"]

MetricLists == { <<MetricCnt, MetricRevenue, MetricNUsers>> }

\* lists of distinct models, at most MaxModels long
RECURSIVE ModelLists(_)
ModelLists(n) ==
  IF n = 0 THEN {<<>>}
  ELSE LET shorter == ModelLists(n - 1)
       IN shorter \cup
          {Append(l, m) : l \in {s \in shorter : Len(s) = n - 1},
                          m \in ModelPool}

Distinct(l) == \A a, b \in DOMAIN l : a # b => l[a] # l[b]

-----------------------------------------------------------------------------
(* Inputs: the target database and the call's policies *)

Databases ==
  { [id |-> 1, sqlalchemy_uri |-> <<"postgresql", "://", "h1", "/", "db1">>],
    [id |-> 2, sqlalchemy_uri |-> <<"bigquery", "://", "db1", "/", "ds">>],
    [id |-> 3, sqlalchemy_uri |-> <<"trino", "://", "db1", "/", "db2">>] }

Certifications == {None, EmptyDict, [details |-> "Certified by data team"]}

Policies == { [disallow_edits |-> FALSE, external_url_prefix |-> ""],
              [disallow_edits |-> TRUE,
               external_url_prefix |-> "https://dbt.example.org/"] }

-----------------------------------------------------------------------------
(* The remote side: what the Superset client may answer *)

RemCnt ==
  [id |-> 11, metric_name |-> "cnt", expression |-> "COUNT(1)",
   metric_type |-> "count", verbose_name |-> "cnt", description |-> "old",
   changed_on |-> "2024-02-01", created_on |-> "2023-01-01"]

RemNUsers ==
  [id |-> 13, metric_name |-> "n_users", expression |-> "COUNT(uid)",
   metric_type |-> "count", verbose_name |-> "Users", description |-> "",
   changed_on |-> "2024-02-01", created_on |-> "2023-01-01",
   type_generic |-> "0"]

RemLegacy ==
  [id |-> 12, metric_name |-> "legacy", expression |-> "MAX(x)",
   metric_type |-> "max", verbose_name |-> "Legacy", description |-> "by hand",
   changed_on |-> "2022-05-05", created_on |-> "2022-01-01"]

RemoteMetricLists == { <<>>, <<RemCnt>>, <<RemCnt, RemNUsers, RemLegacy>> }

ColId ==
  [id |-> 21, column_name |-> "id", description |-> "", verbose_name |-> "",
   is_active |-> None, changed_on |-> "2024-02-01",
   created_on |-> "2023-01-01", type_generic |-> "0"]

ColTs ==
  [id |-> 22, column_name |-> "ts", description |-> "remote text",
   verbose_name |-> "Timestamp", is_active |-> True,
   changed_on |-> "2024-02-01"]

ColLoaded ==
  [id |-> 23, column_name |-> "loaded_at", description |-> "kept",
   verbose_name |-> "Loaded at", is_active |-> True]

RemoteColumnLists == { <<ColId, ColTs, ColLoaded>>, <<ColLoaded>> }

\* the datasets a get_datasets(**filters) call returns when n of them match
RemoteDatasets(filters, n) ==
  [k \in 1..n |-> [id |-> k, schema |-> filters.schema,
                   table_name |-> filters.table_name]]

\* the dataset a successful client.create_dataset(**kwargs) returns
CreatedDataset(kwargs) ==
  [id |-> 100, schema |-> kwargs.schema, table_name |-> kwargs.table_name]

-----------------------------------------------------------------------------
(* Pure helpers of datasets.py *)

\* sqlalchemy.engine.url.make_url on <<driver, "://", host, "/", database>>
make_url(uri) == [drivername |-> uri[1], host |-> uri[3], database |-> uri[5]]

\* fault variant: the driver is ignored
model_in_database_nodriver(model, url) == model.database = url.database
model_in_database(model, url) ==
  IF url.drivername = "bigquery"
  THEN model.database = url.host
  ELSE model.database = url.database

clean_metadata(metadata) ==
  Without(metadata, {"changed_on", "created_on", "type_generic"})

\* engine.dialect.identifier_preparer.quote: quotes only what needs quoting
\* (reserved words, identifiers that are not all lower case)
RESERVED_WORDS == {"select", "table", "user"}
MixedCase == {"Events"}
requires_quotes(value) == value \in RESERVED_WORDS \/ value \in MixedCase
\* (the quote character of the dialect is written as a double quote throughout)
quote(url, value) ==
  IF requires_quotes(value) THEN "\"" \o value \o "\"" ELSE value

table_name_of(model) == StrOr(model, "alias", "name")

\* the kwargs create_dataset passes to client.create_dataset
create_dataset_kwargs(db, model) ==
  LET url == make_url(db.sqlalchemy_uri)
      base == [database |-> db.id, schema |-> model.schema,
               table_name |-> table_name_of(model)]
  IN IF model_in_database(model, url)
     THEN base
     ELSE Merged(base, [sql |-> "SELECT * FROM " \o quote(url, model.database)
                                 \o "." \o quote(url, model.schema)
                                 \o "." \o quote(url, model.name)])

\* preset_cli.cli.superset.sync.dbt.metrics: the metrics that depend on the model
get_metrics_for_model(model, all_metrics) ==
  LET mine(metric) == metric.depends_on = <<model.unique_id>>
  IN SelectSeq(all_metrics, mine)

\* preset_cli.cli.superset.sync.dbt.metrics: the SQL expression of a metric
sql_function(type) ==
  CASE type = "count" -> "COUNT"
    [] type = "sum" -> "SUM"
    [] OTHER -> "MAX"
get_metric_expression(name, model_metrics) ==
  LET metric == CHOOSE m \in Range(model_metrics) : m.name = name
  IN sql_function(StrOr(metric, "type", "calculation_method"))
       \o "(" \o StrOr(metric, "sql", "expression") \o ")"

-----------------------------------------------------------------------------
(* Steps of sync_datasets, as expressions *)

\* model.get("meta", {}).pop("superset", {}): the popped block, the model left
popped_superset(model) ==
  Get(Get(model, "meta", EmptyDict), "superset", EmptyDict)
model_after_pop(model) ==
  IF Has(model, "meta")
  THEN [model EXCEPT !["meta"] = Without(@, {"superset"})]
  ELSE model

has_certification(kwargs) ==
  Has(kwargs, "extra") /\ Has(kwargs["extra"], "certification")

\* try: model_kwargs["extra"].pop("certification")
\* except KeyError: certification or DEFAULT_CERTIFICATION
\* fault variant: the call-level certification is ignored
certification_details_nofallback(kwargs, call_level) ==
  IF has_certification(kwargs)
  THEN kwargs["extra"]["certification"]
  ELSE DEFAULT_CERTIFICATION
certification_details(kwargs, call_level) ==
  IF has_certification(kwargs)
  THEN kwargs["extra"]["certification"]
  ELSE PyOr(call_level, DEFAULT_CERTIFICATION)

kwargs_after_certification(kwargs) ==
  IF has_certification(kwargs)
  THEN [kwargs EXCEPT !["extra"] = Without(@, {"certification"})]
  ELSE kwargs

\* where the loop goes after get_datasets
\* fault variants: several matches are tolerated; a match is not reused
lookup_branch_first(existing) ==
  IF Len(existing) >= 1 THEN "metrics" ELSE "create"
lookup_branch_always_create(existing) ==
  IF Len(existing) > 1 THEN "raised" ELSE "create"
lookup_branch(existing) ==
  IF Len(existing) > 1 THEN "raised"
  ELSE IF existing # <<>> THEN "metrics"
  ELSE "create"

\* try: dataset = create_dataset(...)  except Exception: continue
\* fault variant: a failed creation does not skip the model
after_create_no_continue(ok) == "metrics"
after_create(ok) == IF ok THEN "metrics" ELSE "continue"

build_extra(model, cert_info, kwargs) ==
  LET head == [unique_id |-> model.unique_id,
               depends_on |-> "ref('" \o model.name \o "')"]
      cert == IF cert_info.certification # None THEN cert_info ELSE EmptyDict
  IN Merged(Merged(head, cert), Get(kwargs, "extra", EmptyDict))

names_of(metric_list, key) == {metric_list[k][key] : k \in DOMAIN metric_list}

\* line 159: a remote metric is carried over
\* fault variant: a remote metric is carried over even when merged
keeps_remote_metric_always(name, model_metrics) == TRUE
keeps_remote_metric(name, model_metrics) ==
  ~merge_metadata \/ name \notin names_of(model_metrics, "name")

\* line 166: a local metric gets an update record
builds_definition(name, current) ==
  reload_columns \/ name \notin names_of(current, "metric_name")
    \/ merge_metadata

metric_meta(metric) == Get(metric, "meta", EmptyDict)
metric_after_pop(metric) ==
  IF Has(metric, "meta")
  THEN [metric EXCEPT !["meta"] = Without(@, {"superset"})]
  ELSE metric

metric_definition(metric, model_metrics, current) ==
  LET name == metric.name
      meta == metric_meta(metric)
      kwargs == Get(meta, "superset", EmptyDict)
      base == [expression |-> get_metric_expression(name, model_metrics),
               metric_name |-> name,
               metric_type |-> StrOr(metric, "type", "calculation_method"),
               verbose_name |-> Get(metric, "label", name),
               description |-> Get(metric, "description", ""),
               extra |-> json_dumps(Without(meta, {"superset"}))]
      definition == Merged(base, kwargs)
      remote == CHOOSE m \in Range(current) : m.metric_name = name
  IN IF merge_metadata /\ name \in names_of(current, "metric_name")
     THEN Merged(definition, [id |-> remote.id])
     ELSE definition

\* lines 145-181: the metrics list computed for a model
compute_dataset_metrics(current, model_metrics) ==
  LET kept(metric) == keeps_remote_metric(metric.metric_name, model_metrics)
      built(metric) == builds_definition(metric.name, current)
      remote_part == SelectSeq(current, kept)
      local_part == SelectSeq(model_metrics, built)
  IN [k \in DOMAIN remote_part |-> clean_metadata(remote_part[k])]
     \o [k \in DOMAIN local_part |->
           metric_definition(local_part[k], model_metrics, current)]

\* line 188
primary_metrics(computed) == IF reload_columns THEN <<>> ELSE computed

\* line 196
\* fault variant: the second update is sent even with no metrics
needs_second_update_always(computed) == reload_columns
needs_second_update(computed) == reload_columns /\ computed # <<>>

\* lines 184-193
build_update(model, kwargs, computed) ==
  LET base == [description |-> Get(model, "description", ""),
               extra |-> json_dumps(extra),
               is_managed_externally |-> disallow_edits,
               metrics |-> primary_metrics(computed)]
      update == Merged(base, kwargs)
  IN IF external_url_prefix # ""
     THEN Merged(update, [external_url |-> external_url_prefix \o "#"
                                            \o "!/model/" \o model.unique_id])
     ELSE update

\* lines 206-218, one pass of the loop body over a remote column: `in_list` is
\* the element of current_columns afterwards, `local` the value the name
\* `column` is bound to at the end of the body
column_pass(column, column_metadata) ==
  LET name == column.column_name
      declared == CHOOSE c \in Range(column_metadata) : c.name = name
      described ==
        IF name \in names_of(column_metadata, "name")
        THEN Merged(column,
                    [description |-> Get(declared, "description", ""),
                     verbose_name |-> Get(declared, "name", "")])
        ELSE column
      cleaned == clean_metadata(described)
      dropped == IF Has(cleaned, "is_active") /\ cleaned["is_active"] = None
                 THEN Without(cleaned, {"is_active"})
                 ELSE cleaned
  IN [in_list |-> described, local |-> dropped]

\* the list passed as columns= on line 223
columns_payload(remote_columns, column_metadata) ==
  [k \in DOMAIN remote_columns |->
     column_pass(remote_columns[k], column_metadata).in_list]

-----------------------------------------------------------------------------
(* sync_datasets as a state machine *)

NoCalls == [get_datasets |-> 0, create_dataset |-> 0, get_dataset |-> 0,
            update_dataset |-> 0]

Called(op) == [ncalls EXCEPT ![i][op] = @ + 1]
CalledTimes(op, n) == [ncalls EXCEPT ![i][op] = @ + n]

SyncStart ==
  /\ pc = "loop"
  /\ i = 1
  /\ model_kwargs = EmptyDict
  /\ certification_info = EmptyDict
  /\ dataset = None
  /\ extra = EmptyDict
  /\ current_metrics = <<>>
  /\ dataset_metrics = <<>>
  /\ current_columns = <<>>
  /\ datasets = <<>>
  /\ calls = <<>>
  /\ ncalls = [j \in DOMAIN models |-> NoCalls]
  /\ found = [j \in DOMAIN models |-> -1]
  /\ skipped = [j \in DOMAIN models |-> FALSE]

\* the other entry points are not running
OAuthIdle ==
  /\ client_id = "" /\ client_secret = "" /\ token_url = ""
  /\ oauth_pc = "idle" /\ response = None /\ posts = <<>>
  /\ oauth_result = None

ZipIdle ==
  /\ zip_folder = <<>> /\ yaml_folder = <<>> /\ zip_pc = "idle"
  /\ file_no = 1 /\ member_no = 1 /\ written = {} /\ destinations = <<>>

SyncIdle ==
  /\ models = <<>> /\ models_in = <<>> /\ metrics = <<>>
  /\ database = None /\ certification = None
  /\ reload_columns = TRUE /\ merge_metadata = FALSE
  /\ disallow_edits = FALSE /\ external_url_prefix = ""
  /\ SyncStart

InitSync ==
  /\ models \in {l \in ModelLists(MaxModels) : Distinct(l)}
  /\ models_in = models
  /\ metrics \in MetricLists
  /\ database \in Databases
  /\ certification \in Certifications
  /\ reload_columns \in BOOLEAN
  /\ merge_metadata \in BOOLEAN
  /\ \E p \in Policies :
       /\ disallow_edits = p.disallow_edits
       /\ external_url_prefix = p.external_url_prefix
  /\ SyncStart
  /\ OAuthIdle
  /\ ZipIdle

\* what no step of sync_datasets assigns
sync_args == <<models_in, database, certification, reload_columns,
               merge_metadata, disallow_edits, external_url_prefix,
               oauth_vars, zip_vars>>

\* lines 100-124: the head of the loop body, up to the get_datasets lookup
BeginModel ==
  /\ pc = "loop"
  /\ i <= Len(models)
  /\ LET model == models[i]
         popped == popped_superset(model)
         filters == [database |-> <<"OneToMany", database.id>>,
                     schema |-> model.schema,
                     table_name |-> table_name_of(model)]
     IN /\ models' = [models EXCEPT ![i] = model_after_pop(model)]
        /\ certification_info' =
             [certification |-> certification_details(popped, certification)]
        /\ model_kwargs' = kwargs_after_certification(popped)
        /\ \E n \in 0..MaxMatches :
             LET existing == RemoteDatasets(filters, n)
             IN /\ calls' = <<[op |-> "get_datasets", model |-> i,
                              kwargs |-> filters, result |-> existing]>>
                /\ ncalls' = Called("get_datasets")
                /\ found' = [found EXCEPT ![i] = n]
                /\ pc' = lookup_branch(existing)
                /\ dataset' = IF existing # <<>> THEN existing[1] ELSE None
  /\ extra' = EmptyDict
  /\ current_metrics' = <<>>
  /\ dataset_metrics' = <<>>
  /\ current_columns' = <<>>
  /\ UNCHANGED <<sync_args, metrics, i, datasets, skipped>>

\* lines 125-129 and create_dataset (50-79)
CreateDataset ==
  /\ pc = "create"
  /\ LET kwargs == create_dataset_kwargs(database, models[i])
     IN \E ok \in BOOLEAN :
          /\ calls' = Append(calls, [op |-> "create_dataset", model |-> i,
                                     kwargs |-> kwargs, ok |-> ok])
          /\ ncalls' = Called("create_dataset")
          /\ skipped' = [skipped EXCEPT ![i] = ~ok]
          /\ IF after_create(ok) = "metrics"
             THEN /\ dataset' = CreatedDataset(kwargs)
                  /\ pc' = "metrics"
                  /\ i' = i
             ELSE /\ dataset' = None
                  /\ pc' = "loop"
                  /\ i' = i + 1
  /\ UNCHANGED <<sync_args, models, metrics, model_kwargs, certification_info,
                 extra, current_metrics, dataset_metrics, current_columns,
                 datasets, found>>

\* lines 131-181: the extra payload and the metrics list
ComputeMetrics ==
  /\ pc = "metrics"
  /\ LET model == models[i]
         model_metrics == get_metrics_for_model(model, metrics)
         fetch == ~reload_columns \/ merge_metadata
     IN /\ extra' = build_extra(model, certification_info, model_kwargs)
        /\ model_kwargs' = Without(model_kwargs, {"extra"})
        /\ \E remote \in (IF fetch THEN RemoteMetricLists ELSE {<<>>}) :
             /\ current_metrics' = remote
             /\ dataset_metrics' = compute_dataset_metrics(remote, model_metrics)
             /\ calls' = IF fetch
                         THEN Append(calls, [op |-> "get_dataset", model |-> i,
                                             id |-> dataset.id,
                                             result |-> [metrics |-> remote]])
                         ELSE calls
        /\ ncalls' = IF fetch THEN Called("get_dataset") ELSE ncalls
        /\ metrics' = [k \in DOMAIN metrics |->
                         IF metrics[k] \in Range(model_metrics)
                         THEN metric_after_pop(metrics[k])
                         ELSE metrics[k]]
  /\ pc' = "update"
  /\ UNCHANGED <<sync_args, models, i, certification_info, dataset,
                 current_columns, datasets, found, skipped>>

\* lines 183-200: the primary update and, after a reload, the metrics update
UpdateDataset ==
  /\ pc = "update"
  /\ LET primary == [op |-> "update_dataset", model |-> i, id |-> dataset.id,
                     override_columns |-> reload_columns,
                     kwargs |-> build_update(models[i], model_kwargs,
                                             dataset_metrics)]
         second == [op |-> "update_dataset", model |-> i, id |-> dataset.id,
                    override_columns |-> FALSE,
                    kwargs |-> [metrics |-> dataset_metrics]]
     IN IF needs_second_update(dataset_metrics)
        THEN /\ calls' = calls \o <<primary, second>>
             /\ ncalls' = CalledTimes("update_dataset", 2)
        ELSE /\ calls' = Append(calls, primary)
             /\ ncalls' = Called("update_dataset")
  /\ pc' = "columns"
  /\ UNCHANGED <<sync_args, models, metrics, i, model_kwargs,
                 certification_info, dataset, extra, current_metrics,
                 dataset_metrics, current_columns, datasets, found, skipped>>

\* lines 202-226: the column descriptions, then datasets.append(dataset)
UpdateColumns ==
  /\ pc = "columns"
  /\ LET columns == Get(models[i], "columns", <<>>)
     IN IF columns # <<>>
        THEN \E remote \in RemoteColumnLists :
               /\ current_columns' = columns_payload(remote, columns)
               /\ calls' = calls \o
                    << [op |-> "get_dataset", model |-> i, id |-> dataset.id,
                        result |-> [columns |-> remote]],
                       [op |-> "update_dataset", model |-> i, id |-> dataset.id,
                        override_columns |-> reload_columns,
                        kwargs |-> [columns |-> current_columns']] >>
               /\ ncalls' = [ncalls EXCEPT ![i]["get_dataset"] = @ + 1,
                                           ![i]["update_dataset"] = @ + 1]
        ELSE UNCHANGED <<current_columns, calls, ncalls>>
  /\ datasets' = Append(datasets, dataset)
  /\ i' = i + 1
  /\ pc' = "loop"
  /\ UNCHANGED <<sync_args, models, metrics, model_kwargs, certification_info,
                 dataset, extra, current_metrics, dataset_metrics, found,
                 skipped>>

\* line 228
Return ==
  /\ pc = "loop"
  /\ i > Len(models)
  /\ pc' = "done"
  /\ UNCHANGED <<sync_args, models, metrics, i, model_kwargs,
                 certification_info, dataset, extra, current_metrics,
                 dataset_metrics, current_columns, datasets, calls, ncalls,
                 found, skipped>>

-----------------------------------------------------------------------------
(* get_oauth_access_token (auth/lib.py) *)

BodyToken == "{\"access_token\": \"tok1\", \"token_type\": \"bearer\"}"
BodyNoToken == "{\"token_type\": \"bearer\"}"
BodyError == "{\"error\": \"invalid_client\"}"
BodyHtml == "<html>Bad gateway</html>"

Responses ==
  [status_code : {200, 201, 401, 500},
   text : {BodyToken, BodyNoToken, BodyError, BodyHtml}]

\* response.json(): the parsed body, or a decoding error
response_json(text) ==
  CASE text = BodyToken ->
         [ok |-> TRUE,
          value |-> [access_token |-> "tok1", token_type |-> "bearer"]]
    [] text = BodyNoToken -> [ok |-> TRUE, value |-> [token_type |-> "bearer"]]
    [] text = BodyError -> [ok |-> TRUE, value |-> [error |-> "invalid_client"]]
    [] OTHER -> [ok |-> FALSE, value |-> EmptyDict]

Returned(value) == [kind |-> "return", value |-> value]
Raised(type, message) == [kind |-> "raise", type |-> type, message |-> message]

\* lines 74-89
oauth_request(id, secret, url) ==
  [url |-> url,
   data |-> [grant_type |-> "client_credentials",
             scope |-> "roles profile openid positions:read scopes:read dashboards"],
   headers |-> [content_type |-> "application/x-www-form-urlencoded",
                authorization |-> "Basic <HTTPBasicAuth object>"]]

failure_message(resp) ==
  "Failed to obtain access token. Status code: " \o ToString(resp.status_code)
    \o ", text: " \o resp.text

\* lines 93-98
oauth_outcome(resp) ==
  IF resp.status_code = 200
  THEN LET token_data == response_json(resp.text)
       IN IF ~token_data.ok THEN Raised("JSONDecodeError", resp.text)
          ELSE IF Has(token_data.value, "access_token")
          THEN Returned(token_data.value["access_token"])
          ELSE Raised("KeyError", "access_token")
  ELSE Raised("Exception", failure_message(resp))

InitOAuth ==
  /\ client_id \in {"app", "svc"}
  /\ client_secret \in {"s3cret", ""}
  /\ token_url \in {"https://sso.example.org/token", "https://idp.test/oauth"}
  /\ oauth_pc = "start"
  /\ response = None
  /\ posts = <<>>
  /\ oauth_result = None
  /\ SyncIdle
  /\ ZipIdle

\* line 91: the one requests.post
Post ==
  /\ oauth_pc = "start"
  /\ posts' = Append(posts, oauth_request(client_id, client_secret, token_url))
  /\ response' \in Responses
  /\ oauth_pc' = "responded"
  /\ UNCHANGED <<client_id, client_secret, token_url, oauth_result,
                 sync_vars, zip_vars>>

\* lines 93-98: return the token or raise
Finish ==
  /\ oauth_pc = "responded"
  /\ oauth_result' = oauth_outcome(response)
  /\ oauth_pc' = "finished"
  /\ UNCHANGED <<client_id, client_secret, token_url, response, posts,
                 sync_vars, zip_vars>>

NextOAuth == Post \/ Finish

SpecOAuth == InitOAuth /\ [][NextOAuth]_vars

-----------------------------------------------------------------------------
(* extract_datasets_from_zip (scripts/extract_yamls.py) *)
(* A path is the sequence of the pieces its text is made of; "/" is the    *)
(* separator, so substring tests and slices are tests and slices of the    *)
(* sequence.                                                               *)

MaxMembers == 2

\* str.__contains__ and str.index: the first position of sub in s, 0 if none
Occurs(s, sub, k) ==
  k + Len(sub) - 1 <= Len(s) /\ SubSeq(s, k, k + Len(sub) - 1) = sub
Contains(s, sub) == \E k \in 1..Len(s) : Occurs(s, sub, k)
IndexOf(s, sub) ==
  IF Contains(s, sub)
  THEN CHOOSE k \in 1..Len(s) :
         Occurs(s, sub, k) /\ \A j \in 1..(k - 1) : ~Occurs(s, sub, j)
  ELSE 0
From(s, k) == SubSeq(s, k, Len(s))
EndsWith(s, suffix) ==
  Len(suffix) <= Len(s) /\ From(s, Len(s) - Len(suffix) + 1) = suffix

LastSlash(p) ==
  IF \E k \in 1..Len(p) : p[k] = "/"
  THEN CHOOSE k \in 1..Len(p) :
         p[k] = "/" /\ \A j \in (k + 1)..Len(p) : p[j] # "/"
  ELSE 0
\* os.path.basename, os.path.dirname
basename(p) == From(p, LastSlash(p) + 1)
dirname(p) == SubSeq(p, 1, LastSlash(p) - 1)
\* os.path.join of two components
join(a, b) ==
  IF b # <<>> /\ b[1] = "/" THEN b
  ELSE IF a = <<>> \/ a[Len(a)] = "/" THEN a \o b
  ELSE a \o <<"/">> \o b

METADATA_YAML == <<"metadata", ".yaml">>
output_folder == <<"out">>

DataUuidX == "uuid: X"
DataUuidY == "uuid: Y"
DataNoUuid == "table_name: m"
DataEmptyUuid == "uuid: ''"
DataBroken == "uuid: [X"

\* yaml.safe_load: the mapping read, or a YAMLError
yaml_safe_load(data) ==
  CASE data = DataUuidX -> [ok |-> TRUE, value |-> [uuid |-> "X"]]
    [] data = DataUuidY -> [ok |-> TRUE, value |-> [uuid |-> "Y"]]
    [] data = DataNoUuid -> [ok |-> TRUE, value |-> [table_name |-> "m"]]
    [] data = DataEmptyUuid -> [ok |-> TRUE, value |-> [uuid |-> ""]]
    [] OTHER -> [ok |-> FALSE, value |-> EmptyDict]

Member(filename, data) == [filename |-> filename, data |-> data]

MemberPool ==
  { Member(<<"a", "/", "datasets", "/", "b", "/", "m", ".yaml">>, DataUuidX),
    Member(<<"a", "/", "datasets", "/", "b", "/", "n", ".yaml">>, DataNoUuid),
    Member(<<"a", "/", "metadata", ".yaml">>, DataNoUuid),
    Member(<<"a", "/", "datasets", "/", "metadata", ".yaml">>, DataUuidY),
    Member(<<"a", "/", "datasets", "/", "b", "/", "user_", "metadata", ".yaml">>,
           DataNoUuid),
    Member(<<"a", "/", "charts", "/", "c", ".yaml">>, DataUuidX),
    Member(<<"a", "/", "datasets", "/", "b", "/", "notes", ".txt">>, DataUuidX),
    Member(<<"a", "/", "old_", "datasets", "/", "datasets", "/", "x", ".yaml">>,
           DataBroken),
    Member(<<"a", "/", "datasets", "/", "e", ".yaml">>, DataEmptyUuid),
    Member(<<"top", ".yaml">>, DataUuidY) }

RECURSIVE MemberLists(_)
MemberLists(n) ==
  IF n = 0 THEN {<<>>}
  ELSE LET shorter == MemberLists(n - 1)
       IN shorter \cup
          {Append(l, m) : l \in {x \in shorter : Len(x) = n - 1},
                          m \in MemberPool}

File(name, members) == [name |-> name, members |-> members]

\* the files os.walk finds under zip_folder
Folders ==
  UNION { { << File(<<"export", ".zip">>, ms) >>,
            << File(<<"notes", ".txt">>, <<>>), File(<<"export", ".zip">>, ms) >> }
          : ms \in MemberLists(MaxMembers) }

\* lines 20-33: the relative path of a member, or why it has none
relative_path(filename, folder) ==
  IF Contains(filename, METADATA_YAML) THEN [kind |-> "skip"]
  ELSE IF folder # <<>>
  THEN IF Contains(filename, folder)
       THEN [kind |-> "path", path |-> From(filename, IndexOf(filename, folder))]
       ELSE [kind |-> "skip"]
  ELSE IF Contains(filename, <<"/">>)
  THEN [kind |-> "path",
        path |-> From(filename, IndexOf(filename, <<"/">>) + 1)]
  ELSE [kind |-> "raise"]

\* lines 35-57: where the member's bytes go
extract_path(relative, data) ==
  LET filename == basename(relative)
      yaml_content == yaml_safe_load(data)
      uuid == Get(yaml_content.value, "uuid", "")
  IN IF EndsWith(filename, <<".yaml">>) /\ yaml_content.ok /\ uuid # ""
     THEN join(join(output_folder, dirname(relative)), <<uuid, ".yaml">>)
     ELSE join(output_folder, relative)

\* open(extract_path, 'wb').write(file_data)
write_file(files, path, data) ==
  {f \in files : f.path # path} \cup {[path |-> path, data |-> data]}

InitZip ==
  /\ zip_folder \in Folders
  /\ yaml_folder \in {<<>>, <<"datasets">>}
  /\ zip_pc = "walk"
  /\ file_no = 1
  /\ member_no = 1
  /\ written = {}
  /\ destinations = <<>>
  /\ SyncIdle
  /\ OAuthIdle

zip_args == <<zip_folder, yaml_folder, sync_vars, oauth_vars>>

\* lines 12-17: a file that is a zip archive is opened
OpenArchive ==
  /\ zip_pc = "walk"
  /\ file_no <= Len(zip_folder)
  /\ EndsWith(zip_folder[file_no].name, <<".zip">>)
  /\ zip_pc' = "members"
  /\ member_no' = 1
  /\ UNCHANGED <<zip_args, file_no, written, destinations>>

\* line 14: any other file is passed over
SkipFile ==
  /\ zip_pc = "walk"
  /\ file_no <= Len(zip_folder)
  /\ ~EndsWith(zip_folder[file_no].name, <<".zip">>)
  /\ file_no' = file_no + 1
  /\ UNCHANGED <<zip_args, zip_pc, member_no, written, destinations>>

\* lines 19-61: one member of the open archive
ExtractMember ==
  /\ zip_pc = "members"
  /\ member_no <= Len(zip_folder[file_no].members)
  /\ LET zip_info == zip_folder[file_no].members[member_no]
         relative == relative_path(zip_info.filename, yaml_folder)
     IN IF relative.kind = "skip"
        THEN /\ member_no' = member_no + 1
             /\ UNCHANGED <<zip_pc, written, destinations>>
        ELSE IF relative.kind = "raise"
        THEN /\ zip_pc' = "raised"
             /\ UNCHANGED <<member_no, written, destinations>>
        ELSE LET path == extract_path(relative.path, zip_info.data)
             IN /\ written' = write_file(written, path, zip_info.data)
                /\ destinations' =
                     Append(destinations,
                            [file |-> file_no, member |-> member_no,
                             path |-> path])
                /\ member_no' = member_no + 1
                /\ UNCHANGED zip_pc
  /\ UNCHANGED <<zip_args, file_no>>

\* the end of `for zip_info in zip_ref.infolist()`
CloseArchive ==
  /\ zip_pc = "members"
  /\ member_no > Len(zip_folder[file_no].members)
  /\ file_no' = file_no + 1
  /\ zip_pc' = "walk"
  /\ UNCHANGED <<zip_args, member_no, written, destinations>>

\* the end of the walk
FinishWalk ==
  /\ zip_pc = "walk"
  /\ file_no > Len(zip_folder)
  /\ zip_pc' = "done"
  /\ UNCHANGED <<zip_args, file_no, member_no, written, destinations>>

NextZip ==
  \/ OpenArchive
  \/ SkipFile
  \/ ExtractMember
  \/ CloseArchive
  \/ FinishWalk

SpecZip == InitZip /\ [][NextZip]_vars

Init == InitSync

Next ==
  \/ BeginModel
  \/ CreateDataset
  \/ ComputeMetrics
  \/ UpdateDataset
  \/ UpdateColumns
  \/ Return

Spec == Init /\ [][Next]_vars

-----------------------------------------------------------------------------
(* Properties of sync_datasets *)

UpdateCalls == {k \in DOMAIN calls : calls[k].op = "update_dataset"}
\* the update that carries the dataset's description and extra payload
PrimaryCalls == {k \in UpdateCalls : Has(calls[k].kwargs, "extra")}
\* the update that carries nothing but a metrics list
SecondaryCalls == {k \in UpdateCalls : DOMAIN calls[k].kwargs = {"metrics"}}
ColumnCalls == {k \in UpdateCalls : Has(calls[k].kwargs, "columns")}
CreateCalls == {k \in DOMAIN calls : calls[k].op = "create_dataset"}

\* the model's locally declared metrics and their names
LocalMetrics == get_metrics_for_model(models[i], metrics)
LocalNames == names_of(LocalMetrics, "name")
\* the remote metrics whose name no local metric has
RemoteOnly == {m \in Range(current_metrics) : m.metric_name \notin LocalNames}

Records(list, name) == {k \in DOMAIN list : list[k].metric_name = name}

\* C1 as stated: with reload_columns=True the primary update has metrics = [],
\* and a secondary update is issued iff the model declares a metric, carrying
\* exactly one record per declared metric and no other record.
C1_AsClaimed ==
  (reload_columns /\ pc = "columns") =>
    /\ PrimaryCalls # {}
    /\ \A k \in PrimaryCalls : calls[k].kwargs.metrics = <<>>
    /\ (SecondaryCalls # {}) <=> (LocalMetrics # <<>>)
    /\ \A k \in SecondaryCalls :
         LET sent == calls[k].kwargs.metrics
         IN /\ ~calls[k].override_columns
            /\ \A m \in Range(LocalMetrics) :
                 Cardinality(Records(sent, m.name)) = 1
            /\ Len(sent) = Len(LocalMetrics)

\* C1, amended: with reload_columns=True the primary update has metrics = [],
\* and a secondary update (override_columns=False) is issued iff the computed
\* list is not empty: the model declares a metric or, with merge_metadata=True,
\* the dataset has a remote metric no local metric is named like. Its list
\* holds exactly one record per declared metric and, besides, only the cleaned
\* remote records without a local counterpart (none unless merge_metadata).
C1_ReloadMetrics ==
  (reload_columns /\ pc = "columns") =>
    /\ Cardinality(PrimaryCalls) = 1
    /\ \A k \in PrimaryCalls : calls[k].kwargs.metrics = <<>>
    /\ Cardinality(SecondaryCalls) <= 1
    /\ (SecondaryCalls # {}) <=>
         (LocalMetrics # <<>> \/ (merge_metadata /\ RemoteOnly # {}))
    /\ \A k \in SecondaryCalls :
         LET sent == calls[k].kwargs.metrics
         IN /\ ~calls[k].override_columns
            /\ \A m \in Range(LocalMetrics) :
                 Cardinality(Records(sent, m.name)) = 1
            /\ \A r \in Range(sent) :
                 \/ r.metric_name \in LocalNames
                 \/ /\ merge_metadata
                    /\ \E m \in RemoteOnly : r = clean_metadata(m)
            /\ Len(sent) = Len(LocalMetrics)
                             + (IF merge_metadata THEN Cardinality(RemoteOnly)
                                ELSE 0)

\* a reload with merging where the second update carries a remote-only metric
C1_Witness ==
  /\ reload_columns /\ merge_metadata /\ pc = "columns"
  /\ \E k \in SecondaryCalls :
       /\ Len(calls[k].kwargs.metrics) > Len(LocalMetrics)
       /\ LocalMetrics # <<>>

\* C2: when get_datasets returns more than one dataset for a model the run
\* raises: no create_dataset, get_dataset or update_dataset call for that model,
\* no call at all for a later model, and no result is returned.
C2_MultipleMatchesAbort ==
  \A j \in DOMAIN models :
    found[j] > 1 =>
      /\ pc = "raised"
      /\ i = j
      /\ ncalls[j] = [NoCalls EXCEPT !["get_datasets"] = 1]
      /\ \A k \in DOMAIN calls : calls[k].op = "get_datasets"
      /\ \A k \in DOMAIN models : k > j => ncalls[k] = NoCalls /\ found[k] = -1

\* the first of two models matches twice
C2_Witness == pc = "raised" /\ i < Len(models) /\ found[i] > 1

\* C3: with merge_metadata=True, a metric name both remote and local has exactly
\* one record in the computed list, with the remote id and the local metric's
\* expression, metric_type, verbose_name and description; the remote record is
\* not carried over.
C3_MergeKeepsRemoteId ==
  (merge_metadata /\ pc \in {"update", "columns"}) =>
    \A remote \in Range(current_metrics) :
      \A local \in Range(LocalMetrics) :
        remote.metric_name = local.name =>
          /\ Cardinality(Records(dataset_metrics, local.name)) = 1
          /\ \A k \in Records(dataset_metrics, local.name) :
               LET r == dataset_metrics[k]
               IN /\ Has(r, "id") /\ r.id = remote.id
                  /\ r.expression =
                       get_metric_expression(local.name, LocalMetrics)
                  /\ r.metric_type = StrOr(local, "type", "calculation_method")
                  /\ r.verbose_name = Get(local, "label", local.name)
                  /\ r.description = Get(local, "description", "")
                  /\ r # clean_metadata(remote)
                  /\ r.expression # remote.expression

\* merging a model whose metric is also stored remotely
C3_Witness ==
  /\ merge_metadata /\ pc = "update"
  /\ \E remote \in Range(current_metrics) :
       remote.metric_name \in LocalNames

\* past the point where model j's dataset is created, if it is
PastCreate(j) == j < i \/ (j = i /\ pc \in {"metrics", "update", "columns"})

\* C4: create_dataset is called exactly once for each model whose lookup
\* returns no match, and never for a model whose lookup returns one match.
C4_CreateOncePerMissing ==
  \A j \in DOMAIN models :
    /\ ncalls[j].create_dataset <= 1
    /\ found[j] = 1 => ncalls[j].create_dataset = 0
    /\ (found[j] = 0 /\ (PastCreate(j) \/ pc = "done")) =>
         ncalls[j].create_dataset = 1

\* a finished run that created one dataset and found another
C4_Witness ==
  /\ pc = "done"
  /\ \E j, k \in DOMAIN models :
       /\ found[j] = 0 /\ ncalls[j].create_dataset = 1
       /\ found[k] = 1 /\ ncalls[k].create_dataset = 0

\* the models that were not skipped, in order
NotSkipped ==
  LET kept(j) == ~skipped[j]
  IN SelectSeq([j \in DOMAIN models |-> j], kept)

\* C5: a model whose create_dataset raises is skipped (no get_dataset, no
\* update_dataset, no entry in the result); the failure does not abort the run,
\* later models are processed, and the result holds one dataset per model that
\* was not skipped, in model order.
C5_CreateFailureSkips ==
  /\ \A j \in DOMAIN models :
       skipped[j] =>
         /\ ncalls[j].get_dataset = 0
         /\ ncalls[j].update_dataset = 0
         /\ i > j
  /\ pc = "raised" => found[i] > 1
  /\ pc = "done" =>
       /\ \A j \in DOMAIN models : found[j] >= 0
       /\ Len(datasets) = Len(NotSkipped)
       /\ \A k \in DOMAIN datasets :
            datasets[k].table_name = table_name_of(models[NotSkipped[k]])

\* a finished run whose first model was skipped and whose second was not
C5_Witness ==
  /\ pc = "done" /\ Len(models) >= 2
  /\ skipped[1] /\ ~skipped[2] /\ Len(datasets) = Len(models) - 1

\* the model's own certification override, as passed in
HasOverride(j) == has_certification(popped_superset(models_in[j]))
Override(j) == popped_superset(models_in[j])["extra"]["certification"]

\* C6 as stated: the certification in the primary update's extra payload is the
\* model's override when present (no key at all when it is null), otherwise the
\* call-level argument when one is given, otherwise the built-in default.
C6_AsClaimed ==
  \A k \in PrimaryCalls :
    LET sent == json_loads(calls[k].kwargs.extra)
        j == calls[k].model
    IN IF HasOverride(j)
       THEN IF Override(j) = None
            THEN ~Has(sent, "certification")
            ELSE Has(sent, "certification")
                 /\ sent["certification"] = Override(j)
       ELSE /\ Has(sent, "certification")
            /\ sent["certification"] =
                 (IF certification # None THEN certification
                  ELSE DEFAULT_CERTIFICATION)

\* C6, amended: as stated, except that the call-level argument is used only
\* when it is given and not empty (the code tests its truth value); an empty
\* mapping falls through to the built-in default like no argument at all.
C6_Certification ==
  \A k \in PrimaryCalls :
    LET sent == json_loads(calls[k].kwargs.extra)
        j == calls[k].model
    IN IF HasOverride(j)
       THEN IF Override(j) = None
            THEN ~Has(sent, "certification")
            ELSE Has(sent, "certification")
                 /\ sent["certification"] = Override(j)
       ELSE /\ Has(sent, "certification")
            /\ sent["certification"] =
                 (IF certification # None /\ certification # EmptyDict
                  THEN certification
                  ELSE DEFAULT_CERTIFICATION)

\* a model without an override, updated under an empty call-level certification
C6_Witness ==
  \E k \in PrimaryCalls :
    /\ ~HasOverride(calls[k].model)
    /\ certification = EmptyDict
    /\ json_loads(calls[k].kwargs.extra)["certification"]
         = DEFAULT_CERTIFICATION

\* C7: create_dataset sends a physical request (database, schema, table_name, no
\* sql) iff the model's database is the connection's database (its host for
\* bigquery), otherwise the same keys plus sql = SELECT * FROM the quoted
\* database.schema.name; one client.create_dataset call either way.
C7_PhysicalOrVirtual ==
  /\ Cardinality(CreateCalls) <= 1
  /\ pc = "metrics" /\ found[i] = 0 => Cardinality(CreateCalls) = 1
  /\ \A k \in CreateCalls :
       LET sent == calls[k].kwargs
           model == models[calls[k].model]
           url == make_url(database.sqlalchemy_uri)
           same == IF url.drivername = "bigquery"
                   THEN model.database = url.host
                   ELSE model.database = url.database
       IN /\ sent.database = database.id
          /\ sent.schema = model.schema
          /\ sent.table_name =
               (IF Has(model, "alias") THEN model.alias ELSE model.name)
          /\ same <=> DOMAIN sent = {"database", "schema", "table_name"}
          /\ ~same =>
               /\ DOMAIN sent = {"database", "schema", "table_name", "sql"}
               /\ sent.sql = "SELECT * FROM " \o quote(url, model.database)
                               \o "." \o quote(url, model.schema)
                               \o "." \o quote(url, model.name)

\* a virtual dataset created over a bigquery connection whose dataset name,
\* but not its host, is the model's database
C7_Witness ==
  \E k \in CreateCalls :
    /\ Has(calls[k].kwargs, "sql")
    /\ make_url(database.sqlalchemy_uri).drivername = "bigquery"

\* C10 as stated: the columns list of the final update has one record per remote
\* column, none with a changed_on, created_on or type_generic key or with
\* is_active null, and the declared description and verbose_name on the columns
\* the model declares.
C10_AsClaimed ==
  \A k \in ColumnCalls :
    LET sent == calls[k].kwargs.columns
        remote == calls[k - 1].result.columns
        declared == models[calls[k].model].columns
    IN /\ Len(sent) = Len(remote)
       /\ \A c \in Range(sent) :
            /\ DOMAIN c \cap {"changed_on", "created_on", "type_generic"} = {}
            /\ ~(Has(c, "is_active") /\ c["is_active"] = None)
            /\ \A d \in Range(declared) :
                 d.name = c.column_name =>
                   /\ c.description = Get(d, "description", "")
                   /\ c.verbose_name = d.name

-----------------------------------------------------------------------------
(* Properties of get_oauth_access_token *)

\* C8 as stated: one POST; on 200 the access_token of the JSON body is returned,
\* the empty string when the field is absent; on any other status an error with
\* the status code and the raw body; no retry.
C8_AsClaimed ==
  /\ Len(posts) <= 1
  /\ oauth_pc = "finished" =>
       /\ Len(posts) = 1
       /\ IF response.status_code = 200
          THEN response_json(response.text).ok =>
                 oauth_result =
                   Returned(Get(response_json(response.text).value,
                                "access_token", ""))
          ELSE /\ oauth_result.kind = "raise"
               /\ oauth_result.message =
                    "Failed to obtain access token. Status code: "
                      \o ToString(response.status_code)
                      \o ", text: " \o response.text

-----------------------------------------------------------------------------
(* Properties of extract_datasets_from_zip *)

\* the members extract_datasets_from_zip is done with
Processed ==
  {<<f, m>> \in (DOMAIN zip_folder) \X (1..MaxMembers + 1) :
     /\ m \in DOMAIN zip_folder[f].members
     /\ EndsWith(zip_folder[f].name, <<".zip">>)
     /\ \/ f < file_no
        \/ f = file_no /\ zip_pc = "members" /\ m < member_no}

WrittenFor(f, m) ==
  {d.path : d \in {x \in Range(destinations) : x.file = f /\ x.member = m}}

\* C9 as stated: with a folder filter F, a member whose path contains F and
\* that is not named metadata.yaml is written to exactly one destination, the
\* path from the first occurrence of F under the output folder, or <uuid>.yaml
\* in that directory for a .yaml member whose content has a uuid; every other
\* member is not written.
C9_AsClaimed ==
  yaml_folder # <<>> =>
    \A fm \in Processed :
      LET zip_info == zip_folder[fm[1]].members[fm[2]]
          name == zip_info.filename
          relative == From(name, IndexOf(name, yaml_folder))
          content == yaml_safe_load(zip_info.data)
          renamed == /\ EndsWith(name, <<".yaml">>)
                     /\ content.ok /\ Get(content.value, "uuid", "") # ""
          expected ==
            IF renamed
            THEN output_folder \o <<"/">> \o dirname(relative) \o <<"/">>
                   \o <<content.value["uuid"], ".yaml">>
            ELSE output_folder \o <<"/">> \o relative
      IN IF Contains(name, yaml_folder) /\ basename(name) # METADATA_YAML
         THEN WrittenFor(fm[1], fm[2]) = {expected}
         ELSE WrittenFor(fm[1], fm[2]) = {}

====
